---- MODULE Spec2Model ----
(***************************************************************************)
(* A model of .github/scripts/pr_analyzer.py: the diff indexer             *)
(* (build_added_lines_index), the sequence matcher                         *)
(* (find_sequence_in_added), the suggestion validator                      *)
(* (validate_and_localize_suggestions), the rendering of the summary       *)
(* comment and of the inline review, the orchestrating main(), and         *)
(* upsert_main_comment as overlapping runs execute it.                     *)
(*                                                                         *)
(* Text is modelled by TLA+ strings, handled character by character with   *)
(* Len, SubSeq and \o.  One character is substituted: the lexer of TLA+    *)
(* accepts no backquote inside a string, so the backquote of the           *)
(* Markdown fence is written "~" throughout (Fence below).                 *)
(*                                                                         *)
(* Python's None is the empty tuple <<>> and a present value x is <<x>>.   *)
(***************************************************************************)
EXTENDS Integers, Sequences, FiniteSets, TLC

VARIABLES
    \* build_added_lines_index, one loop iteration per step
    script,          \* the lines still fixed in advance (<<>>: any line may come)
    nread,           \* how many lines the loop has consumed
    raw,             \* the line the last iteration read (<<>> before the first)
    current_file,    \* local current_file
    inside,          \* local inside
    new_line_no,     \* local new_line_no
    result,          \* local result: file -> insertion-ordered dict
    \* validate_and_localize_suggestions, one loop iteration per step
    allow_multi_line,
    added_index,
    model_data,
    vpos,            \* how many suggestions the loop has consumed
    validated,
    \* main
    pc,
    env,             \* os.environ: the set of variables that are set
    max_chars,       \* MAX_PATCH_CHARS
    enable_inline,   \* ENABLE_INLINE_SUGGESTIONS
    files,           \* pr.get_files()
    patch,
    truncated,
    comment_body,
    comments,        \* the pull request's issue comments, oldest first
    review_calls,    \* the create_review calls of the current run
    llm_calls,       \* the model calls of the current run
    llm_failed,      \* whether call_llm_for_suggestions raised in this run
    fetch_calls,     \* the calls of the hosting service for the diff, this run
    upserts,         \* the upsert_main_comment calls completed, all runs
    run_no,          \* sequential runs started so far
    \* upsert_main_comment of overlapping runs, each in two steps
    upsert_pc,       \* per run: "list", "write" or "done"
    existing,        \* per run: local existing, the comment its loop found
    run_body         \* per run: the body it publishes

idxVars == <<script, nread, raw, current_file, inside, new_line_no, result>>
valVars == <<allow_multi_line, added_index, model_data, vpos, validated>>
runVars == <<pc, env, max_chars, enable_inline, files, patch, truncated,
             comment_body, comments, review_calls, llm_calls, llm_failed,
             fetch_calls, upserts, run_no>>
ovVars == <<upsert_pc, existing, run_body>>
vars == <<idxVars, valVars, runVars, ovVars>>

-----------------------------------------------------------------------------
(* Python values *)

None == <<>>
Some(x) == <<x>>

\* The backquote, see the note above.
Backquote == "~"
Fence == Backquote \o Backquote \o Backquote

\* str.startswith(p)
StartsWith(s, p) == Len(s) >= Len(p) /\ SubSeq(s, 1, Len(p)) = p

\* s[i] for a 1-based i, and s[n:]
CharAt(s, i) == SubSeq(s, i, i)
Drop(s, n) == SubSeq(s, n + 1, Len(s))

\* The characters str.strip() removes (the ASCII ones a TLA+ string can hold).
Whitespace == {" ", "\t", "\n", "\r", "\f"}

SetMin(S) == CHOOSE x \in S : \A y \in S : x <= y
SetMax(S) == CHOOSE x \in S : \A y \in S : x >= y

\* str.strip(): from the first to the last character that is no whitespace
Strip(s) ==
    LET keep == {i \in 1..Len(s) : CharAt(s, i) \notin Whitespace} IN
    IF keep = {} THEN "" ELSE SubSeq(s, SetMin(keep), SetMax(keep))

\* The line boundaries of str.splitlines() (the ASCII ones a TLA+ string can hold).
LineBreaks == {"\n", "\r", "\f"}

\* str.splitlines() from position i on: "\r\n" is one boundary, and what
\* follows the last boundary is a line only when it is not empty.
RECURSIVE SplitFrom(_, _)
SplitFrom(s, i) ==
    LET breaks == {j \in i..Len(s) : CharAt(s, j) \in LineBreaks} IN
    IF i > Len(s) THEN <<>>
    ELSE IF breaks = {} THEN <<SubSeq(s, i, Len(s))>>
    ELSE LET j == SetMin(breaks)
             next == IF CharAt(s, j) = "\r" /\ j < Len(s) /\ CharAt(s, j + 1) = "\n"
                     THEN j + 2 ELSE j + 1
         IN  <<SubSeq(s, i, j - 1)>> \o SplitFrom(s, next)

SplitLines(s) == SplitFrom(s, 1)

DigitVal ==
    [c \in {"0", "1", "2", "3", "4", "5", "6", "7", "8", "9"} |->
        CASE c = "0" -> 0 [] c = "1" -> 1 [] c = "2" -> 2 [] c = "3" -> 3
          [] c = "4" -> 4 [] c = "5" -> 5 [] c = "6" -> 6 [] c = "7" -> 7
          [] c = "8" -> 8 [] c = "9" -> 9]

IsDigit(c) == c \in DOMAIN DigitVal

\* int() of the longest run of digits that starts at position i.
RECURSIVE DigitsFrom(_, _, _)
DigitsFrom(s, i, n) ==
    IF i <= Len(s) /\ IsDigit(CharAt(s, i))
    THEN DigitsFrom(s, i + 1, 10 * n + DigitVal[CharAt(s, i)])
    ELSE n

\* re.search(r"\+(\d+)", line): the first "+" that a digit follows; None
\* when there is none, else int(m.group(1)).
HunkNewStart(line) ==
    LET hits == {i \in 1..(Len(line) - 1) :
                    CharAt(line, i) = "+" /\ IsDigit(CharAt(line, i + 1))}
    IN  IF hits = {} THEN None ELSE Some(DigitsFrom(line, SetMin(hits) + 1, 0))

\* str(n) for n >= 0
DigitChar == <<"0", "1", "2", "3", "4", "5", "6", "7", "8", "9">>

RECURSIVE IntToStr(_)
IntToStr(n) ==
    IF n < 10 THEN DigitChar[n + 1] ELSE IntToStr(n \div 10) \o DigitChar[(n % 10) + 1]

-----------------------------------------------------------------------------
(* dict: insertion-ordered, as sequences of <<key, value>> pairs *)

DictKeys(d) == {d[i][1] : i \in 1..Len(d)}

DictHas(d, k) == k \in DictKeys(d)

\* d.get(k): None when absent
DictGet(d, k) ==
    IF DictHas(d, k)
    THEN Some(d[CHOOSE i \in 1..Len(d) : d[i][1] = k][2])
    ELSE None

\* d[k] = v: an existing key keeps its place, a new key goes last.
DictSet(d, k, v) ==
    IF DictHas(d, k)
    THEN [i \in 1..Len(d) |-> IF d[i][1] = k THEN <<k, v>> ELSE d[i]]
    ELSE Append(d, <<k, v>>)

-----------------------------------------------------------------------------
(* build_added_lines_index *)

\* The loop's locals as one record.
IndexerStart ==
    [current_file |-> None, inside |-> FALSE, new_line_no |-> None,
     result |-> <<>>]

IsFileMarker(line) == StartsWith(line, "### ")
IsFenceOpen(line) == StartsWith(line, Fence \o "diff")
IsFence(line) == StartsWith(line, Fence)
IsHunkHeader(line) == StartsWith(line, "@@")
IsAdded(line) == StartsWith(line, "+") /\ ~StartsWith(line, "+++")
IsRemoved(line) == StartsWith(line, "-") /\ ~StartsWith(line, "---")

\* IndexContent with the context branch recording the line as well.
IndexContent_RecordsContext(st, line) ==
    LET f == st.current_file[1]
        n == st.new_line_no[1]
        lines == DictGet(st.result, f)[1]
    IN  IF IsRemoved(line) THEN st
        ELSE [st EXCEPT !.result = DictSet(st.result, f,
                                           DictSet(lines, n, Drop(line, 1))),
                        !.new_line_no = Some(n + 1)]

\* IndexContent with a removed line moving the counter like a context line.
IndexContent_RemovedCounts(st, line) ==
    IF IsAdded(line) THEN
        LET f == st.current_file[1]
            n == st.new_line_no[1]
            lines == DictGet(st.result, f)[1]
        IN  [st EXCEPT !.result = DictSet(st.result, f, DictSet(lines, n, Drop(line, 1))),
                       !.new_line_no = Some(n + 1)]
    ELSE
        [st EXCEPT !.new_line_no = Some(st.new_line_no[1] + 1)]

\* The end of the loop body, reached by a line inside a diff block of a file
\* once a hunk header has set new_line_no: added, removed or context.
IndexContent(st, line) ==
    IF IsAdded(line) THEN
        LET f == st.current_file[1]
            n == st.new_line_no[1]
            lines == DictGet(st.result, f)[1]
        IN  [st EXCEPT !.result = DictSet(st.result, f, DictSet(lines, n, Drop(line, 1))),
                       !.new_line_no = Some(n + 1)]
    ELSE IF IsRemoved(line) THEN
        st
    ELSE
        [st EXCEPT !.new_line_no = Some(st.new_line_no[1] + 1)]

\* One iteration of the for loop over patch.splitlines().
IndexLine(st, line) ==
    IF IsFileMarker(line) THEN
        LET f == Strip(Drop(line, 4)) IN
        [st EXCEPT !.current_file = Some(f), !.result = DictSet(st.result, f, <<>>)]
    ELSE IF IsFenceOpen(line) THEN
        [st EXCEPT !.inside = TRUE]
    ELSE IF IsFence(line) /\ st.inside THEN
        [st EXCEPT !.inside = FALSE, !.current_file = None, !.new_line_no = None]
    ELSE IF ~st.inside \/ st.current_file = None THEN
        st
    ELSE IF IsHunkHeader(line) THEN
        LET m == HunkNewStart(line) IN
        IF m # None THEN [st EXCEPT !.new_line_no = m] ELSE st
    ELSE IF st.new_line_no = None THEN
        st
    ELSE
        IndexContent(st, line)

RECURSIVE IndexLines(_, _, _)
IndexLines(st, lines, i) ==
    IF i > Len(lines) THEN st ELSE IndexLines(IndexLine(st, lines[i]), lines, i + 1)

\* build_added_lines_index(patch)
build_added_lines_index(p) == IndexLines(IndexerStart, SplitLines(p), 1).result

-----------------------------------------------------------------------------
(* JSON values, as the model's answer is parsed by json.loads *)

\* A value is a record with one field, named after its type, so that values
\* of different types are told apart by the field's name.
JStr(x) == [str |-> x]
JNum(x) == [num |-> x]
JList(x) == [list |-> x]
JDict(x) == [dict |-> x]

IsStr(x) == "str" \in DOMAIN x
IsList(x) == "list" \in DOMAIN x
IsDict(x) == "dict" \in DOMAIN x

\* d[k] = v on a dict with string keys
FieldSet(d, k, val) == [x \in DOMAIN d \cup {k} |-> IF x = k THEN val ELSE d[x]]

-----------------------------------------------------------------------------
(* find_sequence_in_added *)

\* What a call does: it returns a value or raises.
Return(x) == [raised |-> FALSE, value |-> x]
Raise == [raised |-> TRUE, value |-> None]

\* The inner loop over enumerate(original_lines), from the 0-based offset
\* on: "ok", "fail" (ok = False; break) or "raise" (strip() of a value
\* that is no string).
\* CheckSequence that takes every candidate start as verified.
CheckSequence_Unverified(file_lines_map, original_lines, start_ln, offset) == "ok"

RECURSIVE CheckSequence(_, _, _, _)
CheckSequence(file_lines_map, original_lines, start_ln, offset) ==
    IF offset >= Len(original_lines) THEN "ok"
    ELSE LET content == DictGet(file_lines_map, start_ln + offset)
             line_text == original_lines[offset + 1]
         IN  IF content = None THEN "fail"
             ELSE IF ~IsStr(line_text) THEN "raise"
             ELSE IF Strip(content[1]) # Strip(line_text.str) THEN "fail"
             ELSE CheckSequence(file_lines_map, original_lines, start_ln, offset + 1)

\* The loop over the candidates, in the order of the list.
\* TryCandidates that gives up when the first candidate fails.
TryCandidates_FirstOnly(file_lines_map, original_lines, candidates, k) ==
    IF k > Len(candidates) THEN Return(None)
    ELSE LET c == CheckSequence(file_lines_map, original_lines, candidates[k], 0) IN
         IF c = "raise" THEN Raise
         ELSE IF c = "ok" THEN Return(Some(candidates[k]))
         ELSE Return(None)

RECURSIVE TryCandidates(_, _, _, _)
TryCandidates(file_lines_map, original_lines, candidates, k) ==
    IF k > Len(candidates) THEN Return(None)
    ELSE LET c == CheckSequence(file_lines_map, original_lines, candidates[k], 0) IN
         IF c = "raise" THEN Raise
         ELSE IF c = "ok" THEN Return(Some(candidates[k]))
         ELSE TryCandidates(file_lines_map, original_lines, candidates, k + 1)

\* The keys whose stripped content is target, in the order of
\* file_lines_map.items().
\* MatchingKeys that compares the content as it is, not stripped.
RECURSIVE MatchingKeys_NoStrip(_, _, _)
MatchingKeys_NoStrip(file_lines_map, target, i) ==
    IF i > Len(file_lines_map) THEN <<>>
    ELSE (IF file_lines_map[i][2] = target
          THEN <<file_lines_map[i][1]>> ELSE <<>>)
         \o MatchingKeys_NoStrip(file_lines_map, target, i + 1)

RECURSIVE MatchingKeys(_, _, _)
MatchingKeys(file_lines_map, target, i) ==
    IF i > Len(file_lines_map) THEN <<>>
    ELSE (IF Strip(file_lines_map[i][2]) = target
          THEN <<file_lines_map[i][1]>> ELSE <<>>)
         \o MatchingKeys(file_lines_map, target, i + 1)

\* find_sequence_in_added without the guard on allow_multi_line.
find_sequence_in_added_AnyMode(file_lines_map, original_lines, allow) ==
    IF Len(original_lines) = 1 THEN
        IF ~IsStr(original_lines[1]) THEN Raise
        ELSE LET target == Strip(original_lines[1].str)
                 hits == MatchingKeys(file_lines_map, target, 1)
             IN  Return(IF hits = <<>> THEN None ELSE Some(hits[1]))
    ELSE IF Len(original_lines) = 0 THEN Raise
    ELSE IF ~IsStr(original_lines[1]) THEN Raise
    ELSE LET first == Strip(original_lines[1].str)
             candidates == MatchingKeys(file_lines_map, first, 1)
         IN  TryCandidates(file_lines_map, original_lines, candidates, 1)

find_sequence_in_added(file_lines_map, original_lines, allow) ==
    IF ~allow /\ Len(original_lines) > 1 THEN Return(None)
    ELSE IF Len(original_lines) = 1 THEN
        \* single line: the first key of items() whose stripped content is target
        IF ~IsStr(original_lines[1]) THEN Raise
        ELSE LET target == Strip(original_lines[1].str)
                 hits == MatchingKeys(file_lines_map, target, 1)
             IN  Return(IF hits = <<>> THEN None ELSE Some(hits[1]))
    ELSE IF Len(original_lines) = 0 THEN Raise
    ELSE IF ~IsStr(original_lines[1]) THEN Raise
    ELSE LET first == Strip(original_lines[1].str)
             candidates == MatchingKeys(file_lines_map, first, 1)
         IN  TryCandidates(file_lines_map, original_lines, candidates, 1)

-----------------------------------------------------------------------------
(* validate_and_localize_suggestions *)

\* The body of the try block for one suggestion s: "raise" (an exception),
\* "skip" (continue) or "ok" with the suggestion as validated.append gets it.
Outcome(k, x) == [kind |-> k, s |-> x]

\* The shape test on original and replacement that ends in continue.
\* ShapeRejected without the comparison of the two lengths:
ShapeRejected_NoLengthCheck(original_lines, replacement) ==
    \/ ~IsList(original_lines)
    \/ ~IsList(replacement)
    \/ Len(original_lines.list) = 0

ShapeRejected(original_lines, replacement) ==
    \/ ~IsList(original_lines)
    \/ ~IsList(replacement)
    \/ Len(original_lines.list) = 0
    \/ Len(original_lines.list) # Len(replacement.list)

TryBody(s, index, allow) ==
    IF ~IsDict(s) THEN Outcome("raise", s)
    ELSE IF "file" \notin DOMAIN s.dict THEN Outcome("raise", s)
    ELSE IF "original" \notin DOMAIN s.dict THEN Outcome("raise", s)
    ELSE IF "replacement" \notin DOMAIN s.dict THEN Outcome("raise", s)
    ELSE LET file == s.dict["file"]
             original_lines == s.dict["original"]
             replacement == s.dict["replacement"]
         IN  IF ShapeRejected(original_lines, replacement)
             THEN Outcome("skip", s)
             ELSE IF IsList(file) \/ IsDict(file) THEN Outcome("raise", s)
             ELSE IF ~IsStr(file) \/ ~DictHas(index, file.str) THEN Outcome("skip", s)
             ELSE LET file_lines_map == DictGet(index, file.str)[1]
                      m == find_sequence_in_added(file_lines_map, original_lines.list, allow)
                  IN  IF m.raised THEN Outcome("raise", s)
                      ELSE IF m.value = None THEN Outcome("skip", s)
                      ELSE LET match_start == m.value[1]
                               s1 == FieldSet(s.dict, "_line_start", JNum(match_start))
                               s2 == FieldSet(s1, "_line_end",
                                        JNum(match_start + Len(original_lines.list) - 1))
                           IN  Outcome("ok", JDict(s2))

\* ValidateIter with an exception emptying the validated list.
ValidateIter_AbortsOnError(acc, s, index, allow) ==
    LET o == TryBody(s, index, allow) IN
    IF o.kind = "ok" THEN Append(acc, o.s)
    ELSE IF o.kind = "raise" THEN <<>>
    ELSE acc

\* One iteration of the loop over the suggestions: the try block and its
\* except clause, from the validated list so far to the validated list after.
ValidateIter(acc, s, index, allow) ==
    LET o == TryBody(s, index, allow) IN
    IF o.kind = "ok" THEN Append(acc, o.s) ELSE acc

\* model_data.get("suggestions") or [], and [] when that is no list
SuggestionsOf(md) ==
    IF "suggestions" \notin DOMAIN md THEN <<>>
    ELSE IF ~IsList(md["suggestions"]) THEN <<>>
    ELSE md["suggestions"].list

RECURSIVE ValidateFrom(_, _, _, _, _)
ValidateFrom(acc, suggestions, i, index, allow) ==
    IF i > Len(suggestions) THEN acc
    ELSE ValidateFrom(ValidateIter(acc, suggestions[i], index, allow),
                      suggestions, i + 1, index, allow)

validate_and_localize_suggestions(md, index, allow) ==
    ValidateFrom(<<>>, SuggestionsOf(md), 1, index, allow)

-----------------------------------------------------------------------------
(* get_pr_and_patch: the text built from the files of the pull request *)

\* A file of pr.get_files(): its filename and its patch (None for a file
\* the hosting service gives no patch for).
PrFile(name, p) == [filename |-> name, patch |-> p]

RECURSIVE PatchTextFrom(_, _)
PatchTextFrom(fs, i) ==
    IF i > Len(fs) THEN ""
    ELSE (IF fs[i].patch # None /\ fs[i].patch[1] # ""
          THEN "\n### " \o fs[i].filename \o "\n" \o Fence \o "diff\n"
               \o fs[i].patch[1] \o "\n" \o Fence \o "\n"
          ELSE "")
         \o PatchTextFrom(fs, i + 1)

TruncationNote == "\n\n[TRUNCATED]"

\* The patch and the truncated flag get_pr_and_patch returns.
get_pr_and_patch(fs, limit) ==
    LET patch_text == PatchTextFrom(fs, 1) IN
    IF Len(patch_text) > limit
    THEN [patch |-> Strip(SubSeq(patch_text, 1, limit) \o TruncationNote),
          truncated |-> TRUE]
    ELSE [patch |-> Strip(patch_text), truncated |-> FALSE]

\* MAX_PATCH_CHARS when the environment does not set it
DefaultMaxPatchChars == 120000

-----------------------------------------------------------------------------
(* build_main_comment, truncate *)

\* s.get(k, default) as an f-string shows it, for the string values the
\* model's answers hold here.
GetText(d, k, default) == IF k \in DOMAIN d /\ IsStr(d[k]) THEN d[k].str ELSE default

\* The width build_main_comment truncates a rationale to.
RationaleWidth == 80

truncate(text, max_len) ==
    IF Len(text) <= max_len THEN text ELSE SubSeq(text, 1, max_len - 3) \o "..."

TableHeader ==
    <<"| ID | Arquivo | Severidade | Tipo | Linhas | Resumo |",
      "|----|---------|------------|------|--------|--------|">>

\* The text shown when no suggestion was validated (accents left out).
NoSuggestions == "_Nenhuma sugestao validada com base no diff._"

TableRow(v) ==
    "| " \o GetText(v.dict, "id", "?") \o " | " \o GetText(v.dict, "file", "?")
    \o " | " \o GetText(v.dict, "severity", "?") \o " | " \o GetText(v.dict, "type", "?")
    \o " | " \o IntToStr(v.dict["_line_start"].num) \o ".."
    \o IntToStr(v.dict["_line_end"].num)
    \o " | " \o truncate(GetText(v.dict, "rationale", ""), RationaleWidth) \o " |"

\* sep.join(xs)
RECURSIVE Join(_, _, _)
Join(sep, xs, i) ==
    IF i > Len(xs) THEN ""
    ELSE IF i = Len(xs) THEN xs[i]
    ELSE xs[i] \o sep \o Join(sep, xs, i + 1)

table_rows(vs) ==
    IF vs # <<>>
    THEN TableHeader \o [k \in 1..Len(vs) |-> TableRow(vs[k])]
    ELSE <<NoSuggestions>>

\* build_main_comment with the marker after the title instead of first.
build_main_comment_MarkerSecond(md, vs, marker) ==
    "**Analise Automatizada (LLM)**\n\n"
    \o "<!-- " \o marker \o " -->\n\n"
    \o "**Resumo:** " \o GetText(md, "summary", "(sem resumo)") \o "\n\n"
    \o "**Veredito:** " \o GetText(md, "verdict", "Needs Work") \o "\n\n"
    \o "### Sugestoes Validadas\n" \o Join("\n", table_rows(vs), 1) \o "\n\n"
    \o "_Cada sugestao inline pode ser aplicada manualmente via 'Apply suggestion'._"

build_main_comment(md, vs, marker) ==
    "<!-- " \o marker \o " -->\n\n"
    \o "**Analise Automatizada (LLM)**\n\n"
    \o "**Resumo:** " \o GetText(md, "summary", "(sem resumo)") \o "\n\n"
    \o "**Veredito:** " \o GetText(md, "verdict", "Needs Work") \o "\n\n"
    \o "### Sugestoes Validadas\n" \o Join("\n", table_rows(vs), 1) \o "\n\n"
    \o "_Cada sugestao inline pode ser aplicada manualmente via 'Apply suggestion'._"

-----------------------------------------------------------------------------
(* upsert_main_comment *)

\* An issue comment of the pull request.
Comment(id, body) == [id |-> id, body |-> body]

\* c.body and c.body.startswith(f"<!-- {marker}")
CarriesMarker(c, marker) == c.body # "" /\ StartsWith(c.body, "<!-- " \o marker)

\* The loop over pr.get_issue_comments(): the position of the first comment
\* that carries the marker, None when there is none.
FindExisting(cs, marker) ==
    LET hits == {k \in 1..Len(cs) : CarriesMarker(cs[k], marker)} IN
    IF hits = {} THEN None ELSE Some(SetMin(hits))

\* WriteSummary that creates a comment whatever the loop found.
WriteSummary_AlwaysCreates(cs, found, body) ==
    Append(cs, Comment(Len(cs) + 1, body))

\* if existing: existing.edit(body) else: pr.create_issue_comment(body) --
\* on the comments cs as they are when the call is made, found being the
\* position of the comment the loop found, None when it found none.
WriteSummary(cs, found, body) ==
    IF found # None
    THEN [cs EXCEPT ![found[1]].body = body]
    ELSE Append(cs, Comment(Len(cs) + 1, body))

\* The comments of the pull request after upsert_main_comment(pr, body, marker)
\* when nothing else writes between its loop and its edit or create.
upsert_main_comment(cs, body, marker) ==
    WriteSummary(cs, FindExisting(cs, marker), body)

-----------------------------------------------------------------------------
(* create_inline_review: the payload and its fallback *)

\* "\n".join(replacement) raises on an element that is no string.
AllStr(xs) == \A i \in 1..Len(xs) : IsStr(xs[i])

InlineBody(v) ==
    GetText(v.dict, "id", "") \o " (" \o GetText(v.dict, "severity", "") \o "/"
    \o GetText(v.dict, "type", "") \o ")\n\n"
    \o GetText(v.dict, "rationale", "") \o "\n\n"
    \o Fence \o "suggestion\n"
    \o Join("\n", [i \in 1..Len(v.dict["replacement"].list) |->
                      v.dict["replacement"].list[i].str], 1)
    \o "\n" \o Fence

\* PayloadEntry with the line numbers counted from 0.
PayloadEntry_ZeroBased(v, allow) ==
    LET line_start == v.dict["_line_start"].num - 1
        line_end == v.dict["_line_end"].num - 1
    IN  IF allow /\ line_end > line_start
        THEN [path |-> v.dict["file"].str, body |-> InlineBody(v),
              start_line |-> line_start, line |-> line_end,
              side |-> "RIGHT", start_side |-> "RIGHT"]
        ELSE [path |-> v.dict["file"].str, body |-> InlineBody(v),
              line |-> line_start, side |-> "RIGHT"]

\* The entry of comments_payload for the validated suggestion v.
PayloadEntry(v, allow) ==
    LET line_start == v.dict["_line_start"].num
        line_end == v.dict["_line_end"].num
    IN  IF allow /\ line_end > line_start
        THEN [path |-> v.dict["file"].str, body |-> InlineBody(v),
              start_line |-> line_start, line |-> line_end,
              side |-> "RIGHT", start_side |-> "RIGHT"]
        ELSE [path |-> v.dict["file"].str, body |-> InlineBody(v),
              line |-> line_start, side |-> "RIGHT"]

comments_payload(vs, allow) == [k \in 1..Len(vs) |-> PayloadEntry(vs[k], allow)]

\* FallbackEntry with the single-line comment put at the start of the range.
FallbackEntry_AnchorsAtStart(c) ==
    IF "start_line" \in DOMAIN c
    THEN [path |-> c.path, body |-> c.body, line |-> c.start_line, side |-> "RIGHT"]
    ELSE c

\* The entry of the fallback list for the payload entry c.
FallbackEntry(c) ==
    IF "start_line" \in DOMAIN c
    THEN [path |-> c.path, body |-> c.body, line |-> c.line, side |-> "RIGHT"]
    ELSE c

fallback_payload(payload) == [k \in 1..Len(payload) |-> FallbackEntry(payload[k])]

\* A call of pr.create_review and whether the hosting service accepted it.
ReviewCall(body, cs, ok) == [body |-> body, comments |-> cs, accepted |-> ok]

\* The create_review calls create_inline_review makes: none without
\* validated suggestions; one when the first is accepted; else the first and
\* the fallback, which is accepted (retry_ok) or not.
create_inline_review(vs, allow, first_ok, retry_ok) ==
    IF vs = <<>> THEN <<>>
    ELSE LET payload == comments_payload(vs, allow) IN
         IF first_ok
         THEN <<ReviewCall("Sugestoes automaticas (geradas por LLM).", payload, TRUE)>>
         ELSE <<ReviewCall("Sugestoes automaticas (geradas por LLM).", payload, FALSE),
                ReviewCall("Sugestoes automaticas (fallback).",
                           fallback_payload(payload), retry_ok)>>

-----------------------------------------------------------------------------
(* main: configuration and the model call *)

\* COMMENT_TAG when the environment does not set it
DefaultMarker == "azure-openai-pr-review"

\* The variables main reads with os.environ[...]: a missing one is a KeyError.
MainRequired == {"GITHUB_REPOSITORY", "PR_NUMBER", "GITHUB_TOKEN"}

\* The variables call_llm_for_suggestions reads with os.environ[...].
LlmRequired == {"AZURE_OPENAI_ENDPOINT", "AZURE_OPENAI_API_KEY"}

\* What extract_first_json returns when the answer holds no JSON object.
ParseFailure ==
    [summary |-> JStr("Falha ao parsear JSON retornado pelo modelo."),
     verdict |-> JStr("Needs Work"), suggestions |-> JList(<<>>)]

\* main with the summary left out of the substituted result.
LlmFailureData_NoSummary(e) ==
    [verdict |-> JStr("Needs Work"), suggestions |-> JList(<<>>)]

\* The result main substitutes when call_llm_for_suggestions raises e.
LlmFailureData(e) ==
    [summary |-> JStr("Falha LLM: " \o e), verdict |-> JStr("Needs Work"),
     suggestions |-> JList(<<>>)]

\* main with the run going on to the model call whatever the patch is.
AfterFetch_IgnoresEmpty(p) == "llm"

\* if not patch: return -- where main goes after get_pr_and_patch
AfterFetch(p) == IF p = "" THEN "done" ELSE "llm"

\* main with the inline review created for a truncated patch as well.
InlineWanted_IgnoresTruncation(enabled, trunc) == enabled

\* if enable_inline and not truncated
InlineWanted(enabled, trunc) == enabled /\ ~trunc

-----------------------------------------------------------------------------
(* Inputs of the indexer *)

\* The two files of the round-trip example.
ExampleFiles ==
    << PrFile("A", Some("@@ -1,3 +1,4 @@\n ctx\n+foo\n ctx")),
       PrFile("B", Some("@@ -5,2 +6,2 @@\n+bar")) >>

ExamplePatch == get_pr_and_patch(ExampleFiles, DefaultMaxPatchChars).patch

\* A file whose last line had no newline at its end and gets one, with a
\* line added after it: the new version is a, b, c.
NoNewlineFiles ==
    << PrFile("A", Some("@@ -1,2 +1,3 @@\n a\n-b\n\\ No newline at end of file\n+b\n+c")) >>

NoNewlinePatch == get_pr_and_patch(NoNewlineFiles, DefaultMaxPatchChars).patch

\* The lines a patch is made of when the indexer reads lines in any order.
Vocabulary ==
    { "### A", "### B", Fence \o "diff", Fence,
      "@@ -1,3 +1,4 @@", "@@ -5 @@",
      "+foo", "-old", " ctx",
      "+++ b/A", "--- a/A", "\\ No newline at end of file" }

\* How many lines a patch has when its lines come in any order.
MaxLines == 8

\* The lines the loop may read next.
NextLines ==
    IF script # <<>>
    THEN (IF nread < Len(script) THEN {script[nread + 1]} ELSE {})
    ELSE (IF nread < MaxLines THEN Vocabulary ELSE {})

IndexerState ==
    [current_file |-> current_file, inside |-> inside,
     new_line_no |-> new_line_no, result |-> result]

-----------------------------------------------------------------------------
(* Values of the variables a specification does not use *)

IdxIdle ==
    /\ script = <<>> /\ nread = 0 /\ raw = None
    /\ current_file = None /\ inside = FALSE /\ new_line_no = None
    /\ result = <<>>

ValIdle ==
    /\ allow_multi_line = FALSE /\ added_index = <<>> /\ model_data = None
    /\ vpos = 0 /\ validated = <<>>

RunIdle ==
    /\ pc = "idle" /\ env = {} /\ max_chars = DefaultMaxPatchChars
    /\ enable_inline = FALSE /\ files = <<>> /\ patch = "" /\ truncated = FALSE
    /\ comment_body = "" /\ comments = <<>> /\ review_calls = <<>>
    /\ llm_calls = 0 /\ llm_failed = FALSE /\ fetch_calls = 0
    /\ upserts = 0 /\ run_no = 0

OvIdle == upsert_pc = <<>> /\ existing = <<>> /\ run_body = <<>>

-----------------------------------------------------------------------------
(* Specification of the indexer: build_added_lines_index line by line *)

InitIndex ==
    /\ script \in {<<>>, SplitLines(ExamplePatch), SplitLines(NoNewlinePatch)}
    /\ nread = 0 /\ raw = None
    /\ current_file = IndexerStart.current_file
    /\ inside = IndexerStart.inside
    /\ new_line_no = IndexerStart.new_line_no
    /\ result = IndexerStart.result
    /\ ValIdle /\ RunIdle /\ OvIdle

\* One iteration of the loop of build_added_lines_index.
IndexStep ==
    \E line \in NextLines :
        LET st == IndexLine(IndexerState, line) IN
        /\ raw' = Some(line)
        /\ nread' = nread + 1
        /\ current_file' = st.current_file
        /\ inside' = st.inside
        /\ new_line_no' = st.new_line_no
        /\ result' = st.result
        /\ UNCHANGED <<script, valVars, runVars, ovVars>>

NextIndex == IndexStep

SpecIndex == InitIndex /\ [][NextIndex]_vars

-----------------------------------------------------------------------------
(* Inputs of the validator *)

\* Patches whose indexes the validator is run against: the round-trip
\* example; a file with a repeated line, a line with whitespace around it
\* and two places where "foo" starts a sequence; a file whose hunks are not
\* in ascending order.
ValidatorFiles ==
    { ExampleFiles,
      << PrFile("A", Some("@@ -1,2 +1,6 @@\n ctx\n+foo\n+  bar \n+foo\n+qux")) >>,
      << PrFile("A", Some("@@ -9 +10 @@\n+foo\n@@ -1 +2,2 @@\n+foo\n+bar")) >> }

ValidatorIndexes ==
    { build_added_lines_index(get_pr_and_patch(fs, DefaultMaxPatchChars).patch)
        : fs \in ValidatorFiles }

\* A suggestion as the model is asked to give it.
Suggestion(id, file, original, replacement) ==
    JDict([id |-> JStr(id), file |-> file, severity |-> JStr("low"),
           type |-> JStr("bug"), original |-> original,
           replacement |-> replacement, rationale |-> JStr("why " \o id)])

StrList(xs) == JList([i \in 1..Len(xs) |-> JStr(xs[i])])

\* The suggestion of the spec's scenario: original ["foo"], replacement ["foobar"].
SingleFoo == Suggestion("S01", JStr("A"), StrList(<<"foo">>), StrList(<<"foobar">>))

\* A suggestion of two lines.
MultiFooBar ==
    Suggestion("S03", JStr("A"), StrList(<<"foo", "bar">>), StrList(<<"x", "y">>))

\* A suggestion whose replacement line is a number.
NumberReplacement ==
    Suggestion("S16", JStr("A"), StrList(<<"foo">>), JList(<<JNum(1)>>))

\* Well-formed and malformed suggestions.
SuggestionPool ==
    { SingleFoo, MultiFooBar, NumberReplacement,
      Suggestion("S02", JStr("A"), StrList(<<" bar">>), StrList(<<"baz">>)),
      Suggestion("S04", JStr("A"), StrList(<<"foo", "qux">>), StrList(<<"x", "y">>)),
      Suggestion("S05", JStr("A"), StrList(<<"foo">>), StrList(<<"x", "y">>)),
      Suggestion("S06", JStr("A"), StrList(<<>>), StrList(<<>>)),
      Suggestion("S07", JStr("A"), JStr("foo"), StrList(<<"x">>)),
      Suggestion("S08", JStr("A"), StrList(<<"foo">>), JStr("x")),
      Suggestion("S09", JStr("Z"), StrList(<<"foo">>), StrList(<<"x">>)),
      Suggestion("S10", JStr("A"), StrList(<<"nope">>), StrList(<<"x">>)),
      Suggestion("S11", JStr("A"), JList(<<JNum(1)>>), StrList(<<"x">>)),
      Suggestion("S12", JStr("A"), JList(<<JStr("foo"), JNum(1)>>), StrList(<<"x", "y">>)),
      Suggestion("S13", JStr("B"), StrList(<<"bar">>), StrList(<<"baz">>)),
      JDict([id |-> JStr("S14"), original |-> StrList(<<"foo">>),
             replacement |-> StrList(<<"x">>)]),
      JStr("S15") }

\* How many suggestions the model's answer holds.
MaxSuggestions == 2

SuggestionLists == UNION { [1..n -> SuggestionPool] : n \in 0..MaxSuggestions }

ModelData(summary, suggestions) ==
    [summary |-> JStr(summary), verdict |-> JStr("Needs Work"),
     suggestions |-> suggestions]

-----------------------------------------------------------------------------
(* Specification of the validator: validate_and_localize_suggestions,
   one suggestion per step *)

InitValidate ==
    /\ added_index \in ValidatorIndexes
    /\ allow_multi_line \in BOOLEAN
    /\ model_data \in
          {ModelData("ok", JList(l)) : l \in SuggestionLists}
              \cup {ModelData("ok", JStr("none")), [summary |-> JStr("ok")]}
    /\ vpos = 0
    /\ validated = <<>>
    /\ IdxIdle /\ RunIdle /\ OvIdle

\* One iteration of the loop of validate_and_localize_suggestions.
ValidateStep ==
    /\ vpos < Len(SuggestionsOf(model_data))
    /\ validated' = ValidateIter(validated, SuggestionsOf(model_data)[vpos + 1],
                                 added_index, allow_multi_line)
    /\ vpos' = vpos + 1
    /\ UNCHANGED <<allow_multi_line, added_index, model_data, idxVars, runVars, ovVars>>

NextValidate == ValidateStep

SpecValidate == InitValidate /\ [][NextValidate]_vars

-----------------------------------------------------------------------------
(* Inputs of a run *)

\* The file with a repeated line and a line with whitespace around it.
RepeatedFiles ==
    << PrFile("A", Some("@@ -1,2 +1,6 @@\n ctx\n+foo\n+  bar \n+foo\n+qux")) >>

\* The pull requests a run is made on; the last has no file with a patch.
RunFiles == { ExampleFiles, RepeatedFiles, << PrFile("logo.png", None) >> }

\* A MAX_PATCH_CHARS that cuts the patches above after their first added line.
SmallMaxPatchChars == 45

\* The answers of the model, as extract_first_json returns them.
RunAnswers ==
    { ModelData("Nada a melhorar.", JList(<<>>)),
      ModelData("Dois pontos.", JList(<<SingleFoo, MultiFooBar>>)),
      ModelData("Um ponto.", JList(<<JStr("S15"), NumberReplacement>>)),
      ParseFailure }

\* The text of the exceptions call_llm_for_suggestions raises after the
\* request: a response that is not ok, and the timeout of requests.post.
LlmErrors ==
    { "Azure OpenAI request failed: 500 Internal Server Error",
      "Read timed out. (read timeout=180)" }

\* str(KeyError(name))
KeyErrorText(name) == "'" \o name \o "'"

\* The environments: complete, or with one required variable missing.
Environments ==
    {MainRequired \cup LlmRequired}
        \cup {(MainRequired \cup LlmRequired) \ {x} : x \in MainRequired \cup LlmRequired}

\* The issue comments the pull request has before the first run: none,
\* or comments of other authors, one with an empty body.
InitialComments == { <<>>, <<Comment(1, "LGTM"), Comment(2, "")>> }

\* How many runs are made on the pull request, one after the other.
MaxRuns == 3

-----------------------------------------------------------------------------
(* Specification of main: runs on one pull request, one after the other *)

InitRun ==
    /\ pc = "start"
    /\ env \in Environments
    /\ max_chars \in {DefaultMaxPatchChars, SmallMaxPatchChars}
    /\ enable_inline \in BOOLEAN
    /\ allow_multi_line \in BOOLEAN
    /\ files \in RunFiles
    /\ comments \in InitialComments
    /\ patch = "" /\ truncated = FALSE
    /\ model_data = None /\ added_index = <<>> /\ validated = <<>> /\ vpos = 0
    /\ comment_body = "" /\ review_calls = <<>>
    /\ llm_calls = 0 /\ llm_failed = FALSE /\ fetch_calls = 0
    /\ upserts = 0 /\ run_no = 1
    /\ IdxIdle /\ OvIdle

\* main, lines 442-447: os.environ[...] of a missing variable raises KeyError.
ReadEnv ==
    /\ pc = "start"
    /\ pc' = IF MainRequired \subseteq env THEN "fetch" ELSE "fatal"
    /\ UNCHANGED <<env, max_chars, enable_inline, files, patch, truncated,
                   comment_body, comments, review_calls, llm_calls, llm_failed,
                   fetch_calls, upserts, run_no, valVars, idxVars, ovVars>>

\* main, lines 451-454: get_pr_and_patch, which raises when the hosting
\* service cannot be reached; an empty patch ends the run.
FetchPatch ==
    /\ pc = "fetch"
    /\ fetch_calls' = fetch_calls + 1
    /\ \E reachable \in BOOLEAN :
          IF reachable
          THEN LET r == get_pr_and_patch(files, max_chars) IN
               /\ patch' = r.patch
               /\ truncated' = r.truncated
               /\ pc' = AfterFetch(r.patch)
          ELSE /\ pc' = "fatal"
               /\ UNCHANGED <<patch, truncated>>
    /\ UNCHANGED <<env, max_chars, enable_inline, files, comment_body, comments,
                   review_calls, llm_calls, llm_failed, upserts, run_no,
                   valVars, idxVars, ovVars>>

\* main, lines 456-460: call_llm_for_suggestions returns the parsed answer or
\* raises: KeyError before the request when the endpoint or the key is not
\* set, an error after the request otherwise.  main substitutes a result.
CallLLM ==
    /\ pc = "llm"
    /\ IF "AZURE_OPENAI_ENDPOINT" \notin env
       THEN /\ model_data' = LlmFailureData(KeyErrorText("AZURE_OPENAI_ENDPOINT"))
            /\ llm_failed' = TRUE
            /\ llm_calls' = llm_calls
       ELSE IF "AZURE_OPENAI_API_KEY" \notin env
       THEN /\ model_data' = LlmFailureData(KeyErrorText("AZURE_OPENAI_API_KEY"))
            /\ llm_failed' = TRUE
            /\ llm_calls' = llm_calls
       ELSE /\ llm_calls' = llm_calls + 1
            /\ \/ \E e \in LlmErrors :
                     /\ model_data' = LlmFailureData(e)
                     /\ llm_failed' = TRUE
               \/ \E md \in RunAnswers :
                     /\ model_data' = md
                     /\ llm_failed' = FALSE
    /\ pc' = "index"
    /\ UNCHANGED <<env, max_chars, enable_inline, files, patch, truncated,
                   comment_body, comments, review_calls, fetch_calls, upserts,
                   run_no, allow_multi_line, added_index, vpos, validated, idxVars, ovVars>>

\* main, line 462
IndexDiff ==
    /\ pc = "index"
    /\ added_index' = build_added_lines_index(patch)
    /\ pc' = "validate"
    /\ UNCHANGED <<env, max_chars, enable_inline, files, patch, truncated,
                   comment_body, comments, review_calls, llm_calls, llm_failed,
                   fetch_calls, upserts, run_no, allow_multi_line, model_data,
                   vpos, validated, idxVars, ovVars>>

\* main, line 463
Validate ==
    /\ pc = "validate"
    /\ validated' = validate_and_localize_suggestions(model_data, added_index,
                                                      allow_multi_line)
    /\ vpos' = Len(SuggestionsOf(model_data))
    /\ pc' = "render"
    /\ UNCHANGED <<env, max_chars, enable_inline, files, patch, truncated,
                   comment_body, comments, review_calls, llm_calls, llm_failed,
                   fetch_calls, upserts, run_no, allow_multi_line, added_index,
                   model_data, idxVars, ovVars>>

\* main, line 465
RenderSummary ==
    /\ pc = "render"
    /\ comment_body' = build_main_comment(model_data, validated, DefaultMarker)
    /\ pc' = "publish"
    /\ UNCHANGED <<env, max_chars, enable_inline, files, patch, truncated, comments,
                   review_calls, llm_calls, llm_failed, fetch_calls, upserts,
                   run_no, valVars, idxVars, ovVars>>

\* main, line 466
PublishSummary ==
    /\ pc = "publish"
    /\ comments' = upsert_main_comment(comments, comment_body, DefaultMarker)
    /\ upserts' = upserts + 1
    /\ pc' = "inline"
    /\ UNCHANGED <<env, max_chars, enable_inline, files, patch, truncated,
                   comment_body, review_calls, llm_calls, llm_failed, fetch_calls,
                   run_no, valVars, idxVars, ovVars>>

\* main, lines 468-471: create_inline_review, where "\n".join(replacement)
\* raises on a replacement line that is no string, and nothing catches it.
InlineReview ==
    /\ pc = "inline"
    /\ IF ~InlineWanted(enable_inline, truncated)
       THEN /\ pc' = "done"
            /\ UNCHANGED review_calls
       ELSE IF \E k \in 1..Len(validated) : ~AllStr(validated[k].dict["replacement"].list)
       THEN /\ pc' = "fatal"
            /\ UNCHANGED review_calls
       ELSE /\ pc' = "done"
            /\ \E first_ok, retry_ok \in BOOLEAN :
                  review_calls' = create_inline_review(validated, allow_multi_line,
                                                       first_ok, retry_ok)
    /\ UNCHANGED <<env, max_chars, enable_inline, files, patch, truncated,
                   comment_body, comments, llm_calls, llm_failed, fetch_calls,
                   upserts, run_no, valVars, idxVars, ovVars>>

\* The next run on the same pull request, after the one before has ended.
Restart ==
    /\ pc \in {"done", "fatal"}
    /\ run_no < MaxRuns
    /\ run_no' = run_no + 1
    /\ pc' = "start"
    /\ patch' = "" /\ truncated' = FALSE
    /\ model_data' = None /\ added_index' = <<>> /\ validated' = <<>> /\ vpos' = 0
    /\ comment_body' = "" /\ review_calls' = <<>>
    /\ llm_calls' = 0 /\ llm_failed' = FALSE /\ fetch_calls' = 0
    /\ UNCHANGED <<env, max_chars, enable_inline, files, comments, upserts,
                   allow_multi_line, idxVars, ovVars>>

NextRun ==
    \/ ReadEnv
    \/ FetchPatch
    \/ CallLLM
    \/ IndexDiff
    \/ Validate
    \/ RenderSummary
    \/ PublishSummary
    \/ InlineReview
    \/ Restart

SpecRun == InitRun /\ [][NextRun]_vars

-----------------------------------------------------------------------------
(* Specification of overlapping runs: upsert_main_comment of several runs on
   one pull request, the loop over the comments and the edit or create of
   each run being two requests to the hosting service that the requests of
   the other runs may come between *)

\* How many runs overlap.
OverlapRuns == 2

Runs == 1..OverlapRuns

\* The bodies the runs publish, as build_main_comment renders them.
OverlapBodies ==
    { build_main_comment(md, <<>>, DefaultMarker) :
        md \in { ModelData("Nada a melhorar.", JList(<<>>)), ParseFailure,
                 LlmFailureData("Read timed out. (read timeout=180)") } }

\* The comments of the pull request when the runs start: as before a first
\* run, or with the summary of an earlier run after the comments of others.
OverlapComments ==
    InitialComments
        \cup { upsert_main_comment(<<Comment(1, "LGTM"), Comment(2, "")>>,
                                   build_main_comment(ParseFailure, <<>>, DefaultMarker),
                                   DefaultMarker) }

InitOverlap ==
    /\ upsert_pc = [r \in Runs |-> "list"]
    /\ existing = [r \in Runs |-> None]
    /\ run_body \in [Runs -> OverlapBodies]
    /\ comments \in OverlapComments
    /\ pc = "idle" /\ env = {} /\ max_chars = DefaultMaxPatchChars
    /\ enable_inline = FALSE /\ files = <<>> /\ patch = "" /\ truncated = FALSE
    /\ comment_body = "" /\ review_calls = <<>>
    /\ llm_calls = 0 /\ llm_failed = FALSE /\ fetch_calls = 0
    /\ upserts = 0 /\ run_no = 0
    /\ IdxIdle /\ ValIdle

\* upsert_main_comment, lines 349-353, of run r
ListComments(r) ==
    /\ upsert_pc[r] = "list"
    /\ existing' = [existing EXCEPT ![r] = FindExisting(comments, DefaultMarker)]
    /\ upsert_pc' = [upsert_pc EXCEPT ![r] = "write"]
    /\ UNCHANGED <<run_body, idxVars, valVars, runVars>>

\* upsert_main_comment, lines 354-357, of run r
WriteComment(r) ==
    /\ upsert_pc[r] = "write"
    /\ comments' = WriteSummary(comments, existing[r], run_body[r])
    /\ upserts' = upserts + 1
    /\ upsert_pc' = [upsert_pc EXCEPT ![r] = "done"]
    /\ UNCHANGED <<existing, run_body, idxVars, valVars, pc, env, max_chars,
                   enable_inline, files, patch, truncated, comment_body,
                   review_calls, llm_calls, llm_failed, fetch_calls, run_no>>

NextOverlap == \E r \in Runs : ListComments(r) \/ WriteComment(r)

SpecOverlap == InitOverlap /\ [][NextOverlap]_vars

-----------------------------------------------------------------------------
(* Claims about the indexer, checked under SpecIndex *)

\* The entries of an index, as (file, line number, content) triples.
Entries(idx) ==
    UNION { { <<idx[i][1], idx[i][2][j][1], idx[i][2][j][2]>> : j \in 1..Len(idx[i][2]) }
            : i \in 1..Len(idx) }

\* C1: every entry (file, line number, content) that enters the index enters
\* it in the iteration that reads a line starting with "+" and not with
\* "+++", and its content is that line without the "+": no removed line and
\* no context line is ever recorded.
C1_OnlyAddedLinesRecorded ==
    [][\A e \in Entries(result') \ Entries(result) :
          /\ raw' # None
          /\ StartsWith(raw'[1], "+")
          /\ ~StartsWith(raw'[1], "+++")
          /\ e[3] = Drop(raw'[1], 1)]_vars

\* C1's case: with an added line in the index, the loop has just read a
\* removed or a context line inside a diff block whose counter is set.
C1_Witness ==
    /\ Entries(result) # {}
    /\ raw \in {Some("-old"), Some(" ctx"), Some("+++ b/A")}
    /\ inside /\ current_file # None /\ new_line_no # None

\* A line that is neither a file marker, a fence nor a hunk header.
IsContentLine(line) ==
    /\ ~StartsWith(line, "### ")
    /\ ~StartsWith(line, Fence)
    /\ ~StartsWith(line, "@@")

\* What an iteration does to a content line read inside a diff block whose
\* counter a hunk header has set to n.
ContentStepAsSpecified ==
    (inside /\ current_file # None /\ new_line_no # None /\ IsContentLine(raw'[1])) =>
        LET line == raw'[1]
            f == current_file[1]
            n == new_line_no[1]
        IN  IF StartsWith(line, "+") /\ ~StartsWith(line, "+++") THEN
                /\ Entries(result') =
                      {e \in Entries(result) : ~(e[1] = f /\ e[2] = n)}
                          \cup {<<f, n, Drop(line, 1)>>}
                /\ new_line_no' = Some(n + 1)
            ELSE IF StartsWith(line, "-") /\ ~StartsWith(line, "---") THEN
                /\ result' = result
                /\ new_line_no' = Some(n)
            ELSE
                /\ result' = result
                /\ new_line_no' = Some(n + 1)

\* The index the round-trip example must give: {A: {2: "foo"}, B: {6: "bar"}}.
ExampleIndex == << <<"A", << <<2, "foo">> >> >>, <<"B", << <<6, "bar">> >> >> >>

ExampleRead == script = SplitLines(ExamplePatch) /\ nread = Len(script)

\* C3: inside a diff block with the counter set, an added line is recorded
\* at the counter without its "+" and the counter goes up by one, a removed
\* line changes nothing, any other content line only moves the counter up
\* by one; and the two-file example yields exactly {A: {2: "foo"}, B: {6: "bar"}}.
C3_ContentLinesAndExample ==
    /\ [][ContentStepAsSpecified]_vars
    /\ [](ExampleRead => result = ExampleIndex)

\* C3's case: the whole example has been read and gave the index.
C3_Witness == ExampleRead /\ result = ExampleIndex

\* C14: the iteration that reads a file marker leaves the counter unknown,
\* in whatever state it reads it; and the line read right after a file
\* marker records nothing unless a hunk header comes first.
C14_FileMarkerResetsCounter ==
    /\ [][(raw' # None /\ IsFileMarker(raw'[1])) => new_line_no' = None]_vars
    /\ [][(raw # None /\ IsFileMarker(raw[1]))
             => Entries(result') \subseteq Entries(result)]_vars

\* The numbering of the unified diff format, for a text whose diff blocks
\* are well formed: the hunk header gives the number of the first line of
\* the new version; a context line and an added line are lines of the new
\* version; a removed line and a "\ No newline at end of file" marker are not.
RECURSIVE NewSideFrom(_, _, _)
NewSideFrom(st, lines, i) ==
    IF i > Len(lines) THEN st.index
    ELSE LET line == lines[i]
             after ==
                 IF IsFileMarker(line) THEN
                     [file |-> Strip(Drop(line, 4)), n |-> 0,
                      index |-> DictSet(st.index, Strip(Drop(line, 4)), <<>>)]
                 ELSE IF IsFence(line) THEN st
                 ELSE IF IsHunkHeader(line) THEN [st EXCEPT !.n = HunkNewStart(line)[1]]
                 ELSE IF StartsWith(line, "+") THEN
                     [st EXCEPT !.n = st.n + 1,
                                !.index = DictSet(st.index, st.file,
                                              DictSet(DictGet(st.index, st.file)[1],
                                                      st.n, Drop(line, 1)))]
                 ELSE IF StartsWith(line, " ") THEN [st EXCEPT !.n = st.n + 1]
                 ELSE st
         IN  NewSideFrom(after, lines, i + 1)

NewSideIndex(lines) == NewSideFrom([file |-> "", n |-> 0, index |-> <<>>], lines, 1)

\* C19: when the whole of a text of well-formed diff blocks has been read,
\* every added line is recorded under its position in the new version of
\* its file, also in a hunk with a "\ No newline at end of file" marker.
C19_RecordedAtTruePosition ==
    (script # <<>> /\ nread = Len(script)) => result = NewSideIndex(script)

\* A line starting with "@@" that carries no "+<N>".
IsMalformedHeader(line) == IsHunkHeader(line) /\ HunkNewStart(line) = None

\* C15: a malformed hunk header read inside the diff block of a file leaves
\* the counter unknown, also after a well-formed header of the same block,
\* and the line read right after it is not recorded.
C15_MalformedHeaderUnindexes ==
    /\ [][(inside /\ current_file # None /\ IsMalformedHeader(raw'[1]))
             => new_line_no' = None]_vars
    /\ [][(inside /\ current_file # None /\ raw # None /\ IsMalformedHeader(raw[1]))
             => Entries(result') \subseteq Entries(result)]_vars

-----------------------------------------------------------------------------
(* Claims about the validator, checked under SpecValidate *)

\* The suggestions the loop has consumed.
Processed == SubSeq(SuggestionsOf(model_data), 1, vpos)

LineStart(v) == v.dict["_line_start"].num
LineEnd(v) == v.dict["_line_end"].num

\* A validated suggestion without the two fields the validator adds.
Base(v) ==
    JDict([x \in DOMAIN v.dict \ {"_line_start", "_line_end"} |-> v.dict[x]])

\* The stripped content the index of file f has at line ln, None without it.
StrippedAt(index, f, ln) ==
    IF DictHas(index, f) /\ DictHas(DictGet(index, f)[1], ln)
    THEN Some(Strip(DictGet(DictGet(index, f)[1], ln)[1]))
    ELSE None

\* The sequence of original lines sits in the index of f from line ln on.
SequenceAt(index, f, original_lines, ln) ==
    \A i \in 1..Len(original_lines) :
        /\ IsStr(original_lines[i])
        /\ StrippedAt(index, f, ln + i - 1) = Some(Strip(original_lines[i].str))

\* C2: for every validated suggestion, _line_end = _line_start +
\* len(original) - 1, every line from _line_start to _line_end is a key of the
\* index of the suggestion's file, and the stripped content at _line_start + i
\* is the stripped original[i].
C2_ValidatedAnchored ==
    \A k \in 1..Len(validated) :
        LET v == validated[k] IN
        /\ IsDict(v) /\ IsStr(v.dict["file"]) /\ IsList(v.dict["original"])
        /\ LineEnd(v) = LineStart(v) + Len(v.dict["original"].list) - 1
        /\ SequenceAt(added_index, v.dict["file"].str, v.dict["original"].list,
                      LineStart(v))

\* C2's case: a validated suggestion of several lines whose first line also
\* occurs at an earlier line, where the sequence does not continue.
C2_Witness ==
    \E k \in 1..Len(validated) :
        LET v == validated[k] IN
        /\ LineEnd(v) > LineStart(v)
        /\ \E ln \in 1..(LineStart(v) - 1) :
              StrippedAt(added_index, v.dict["file"].str, ln)
                  = Some(Strip(v.dict["original"].list[1].str))

\* A suggestion of one original line and one replacement line whose file is
\* in the index and whose stripped line is the stripped content of an added line.
SingleLineMatch(s) ==
    /\ IsDict(s)
    /\ {"file", "original", "replacement"} \subseteq DOMAIN s.dict
    /\ IsStr(s.dict["file"]) /\ DictHas(added_index, s.dict["file"].str)
    /\ IsList(s.dict["original"]) /\ Len(s.dict["original"].list) = 1
    /\ IsStr(s.dict["original"].list[1])
    /\ IsList(s.dict["replacement"]) /\ Len(s.dict["replacement"].list) = 1
    /\ \E ln \in DictKeys(DictGet(added_index, s.dict["file"].str)[1]) :
          SequenceAt(added_index, s.dict["file"].str, s.dict["original"].list, ln)

\* C4: a single-line suggestion whose stripped original is the stripped
\* content of an added line of its file is accepted, with _line_start =
\* _line_end = the number of a matching added line, in both modes.
C4_SingleLineAccepted ==
    \A i \in 1..vpos :
        LET s == Processed[i] IN
        SingleLineMatch(s) =>
            \E k \in 1..Len(validated) :
                LET v == validated[k] IN
                /\ Base(v) = s
                /\ LineStart(v) = LineEnd(v)
                /\ SequenceAt(added_index, s.dict["file"].str,
                              s.dict["original"].list, LineStart(v))

\* C4's case: with multi-line mode disabled, an accepted single-line
\* suggestion that equals the added line only after stripping.
C4_Witness ==
    /\ ~allow_multi_line
    /\ \E k \in 1..Len(validated) :
          LET v == validated[k] IN
          /\ SingleLineMatch(Base(v))
          /\ DictGet(DictGet(added_index, v.dict["file"].str)[1], LineStart(v))[1]
                # v.dict["original"].list[1].str

\* A suggestion with an original of more than one line.
IsMultiLine(s) ==
    /\ IsDict(s) /\ "original" \in DOMAIN s.dict
    /\ IsList(s.dict["original"]) /\ Len(s.dict["original"].list) > 1

\* C5: with allow_multi_line false no suggestion with more than one original
\* line is validated, and every validated suggestion has _line_start = _line_end.
C5_MultiLineRejectedWhenDisabled ==
    ~allow_multi_line =>
        /\ \A k \in 1..Len(validated) :
              /\ ~IsMultiLine(validated[k])
              /\ LineStart(validated[k]) = LineEnd(validated[k])
        /\ \A i \in 1..vpos :
              IsMultiLine(Processed[i]) =>
                  \A k \in 1..Len(validated) : Base(validated[k]) # Processed[i]

\* C5's case: with the mode disabled the loop has consumed a multi-line
\* suggestion whose sequence sits contiguously in the index of its file.
C5_Witness ==
    /\ ~allow_multi_line
    /\ \E i \in 1..vpos :
          LET s == Processed[i] IN
          /\ IsMultiLine(s)
          /\ IsList(s.dict["replacement"])
          /\ Len(s.dict["replacement"].list) = Len(s.dict["original"].list)
          /\ IsStr(s.dict["file"]) /\ DictHas(added_index, s.dict["file"].str)
          /\ \E ln \in DictKeys(DictGet(added_index, s.dict["file"].str)[1]) :
                SequenceAt(added_index, s.dict["file"].str, s.dict["original"].list, ln)

\* original and replacement are lists of one and the same non-zero length.
WellShaped(s) ==
    /\ IsDict(s)
    /\ {"original", "replacement"} \subseteq DOMAIN s.dict
    /\ IsList(s.dict["original"]) /\ IsList(s.dict["replacement"])
    /\ Len(s.dict["original"].list) > 0
    /\ Len(s.dict["original"].list) = Len(s.dict["replacement"].list)

\* C6: a suggestion whose original and replacement differ in length, whose
\* original is empty or where one of the two is no list is never validated.
C6_MalformedShapesRejected ==
    /\ \A k \in 1..Len(validated) : WellShaped(validated[k])
    /\ \A i \in 1..vpos :
          ~WellShaped(Processed[i]) =>
              \A k \in 1..Len(validated) : Base(validated[k]) # Processed[i]

\* C6's case: the loop has consumed a suggestion whose single original line
\* is an added line of its file, with a replacement of another length or
\* that is no list.
C6_Witness ==
    \E i \in 1..vpos :
        LET s == Processed[i] IN
        /\ IsDict(s) /\ ~WellShaped(s)
        /\ {"file", "original", "replacement"} \subseteq DOMAIN s.dict
        /\ IsStr(s.dict["file"]) /\ DictHas(added_index, s.dict["file"].str)
        /\ IsList(s.dict["original"]) /\ Len(s.dict["original"].list) = 1
        /\ \E ln \in DictKeys(DictGet(added_index, s.dict["file"].str)[1]) :
              SequenceAt(added_index, s.dict["file"].str, s.dict["original"].list, ln)

\* What the validator returns for the list that holds suggestion s alone.
Alone(s) ==
    validate_and_localize_suggestions(ModelData("ok", JList(<<s>>)),
                                      added_index, allow_multi_line)

RECURSIVE EachAlone(_, _)
EachAlone(ss, i) ==
    IF i > Len(ss) THEN <<>> ELSE Alone(ss[i]) \o EachAlone(ss, i + 1)

\* C7: the validated list is, in the order of the suggestions, what the
\* validator returns for each consumed suggestion alone: a suggestion that
\* is malformed or rejected is dropped, and it changes neither whether
\* another suggestion is accepted nor the line numbers that one gets.
C7_ValidatedIndependently == validated = EachAlone(Processed, 1)

\* C7's case: the first of two suggestions raised inside the try block or
\* was rejected, the other way round for the second, and one was accepted.
C7_Witness ==
    /\ vpos = 2
    /\ Len(validated) = 1
    /\ \/ TryBody(Processed[1], added_index, allow_multi_line).kind = "raise"
       \/ TryBody(Processed[2], added_index, allow_multi_line).kind = "raise"

\* A consumed suggestion of several original lines for a file of the index.
MultiLineForIndexedFile(s) ==
    /\ IsMultiLine(s)
    /\ "file" \in DOMAIN s.dict /\ IsStr(s.dict["file"])
    /\ DictHas(added_index, s.dict["file"].str)

\* What find_sequence_in_added gives for s in multi-line mode.
FoundFor(s) ==
    find_sequence_in_added(DictGet(added_index, s.dict["file"].str)[1],
                           s.dict["original"].list, TRUE)

IsFound(r) == ~r.raised /\ r.value # None

\* C16: in multi-line mode, for two or more original lines,
\* find_sequence_in_added returns a start exactly when some line L of the
\* file's index is such that every L + i is a key whose stripped content is
\* the stripped original[i]; the start it returns is such an L, whatever
\* candidates failed before it; and the validator accepts a well-shaped
\* suggestion with that start exactly then.
C16_MultiLineFoundIffContiguous ==
    allow_multi_line =>
        \A i \in 1..vpos :
            LET s == Processed[i] IN
            MultiLineForIndexedFile(s) =>
                LET f == s.dict["file"].str
                    original_lines == s.dict["original"].list
                    r == FoundFor(s)
                IN  /\ IsFound(r) <=>
                          \E L \in DictKeys(DictGet(added_index, f)[1]) :
                              SequenceAt(added_index, f, original_lines, L)
                    /\ IsFound(r) => SequenceAt(added_index, f, original_lines, r.value[1])
                    /\ WellShaped(s) =>
                          /\ IsFound(r) <=> \E k \in 1..Len(validated) : Base(validated[k]) = s
                          /\ \A k \in 1..Len(validated) :
                                Base(validated[k]) = s => LineStart(validated[k]) = r.value[1]

\* C16's case: in multi-line mode a suggestion of several lines was accepted
\* at a start that is not the first candidate, the first candidate having
\* failed at a later offset.
C16_Witness ==
    /\ allow_multi_line
    /\ \E i \in 1..vpos :
          LET s == Processed[i] IN
          /\ MultiLineForIndexedFile(s) /\ WellShaped(s)
          /\ IsFound(FoundFor(s))
          /\ MatchingKeys(DictGet(added_index, s.dict["file"].str)[1],
                          Strip(s.dict["original"].list[1].str), 1)[1]
                # FoundFor(s).value[1]
          /\ \E k \in 1..Len(validated) :
                Base(validated[k]) = s /\ LineEnd(validated[k]) > LineStart(validated[k])

\* C18: the start a validated suggestion gets is the lowest line number at
\* which its original lines match the index of its file, for every index
\* the indexer produces, also from hunks that are not in ascending order.
C18_LowestMatchingLine ==
    \A k \in 1..Len(validated) :
        LET v == validated[k]
            f == v.dict["file"].str
        IN  \A L \in DictKeys(DictGet(added_index, f)[1]) :
                SequenceAt(added_index, f, v.dict["original"].list, L)
                    => LineStart(v) <= L

-----------------------------------------------------------------------------
(* Claims about main, checked under SpecRun *)

\* The positions of the comments whose body starts with the marker.
Marked(cs) ==
    {k \in 1..Len(cs) : StartsWith(cs[k].body, "<!-- azure-openai-pr-review")}

\* What one upsert_main_comment call does to the comments: the first call
\* adds the marked comment after the others, a later call gives the marked
\* comment the new body, and no other comment changes.
UpsertCreatesThenEdits ==
    (upserts' = upserts + 1) =>
        IF upserts = 0
        THEN /\ Len(comments') = Len(comments) + 1
             /\ SubSeq(comments', 1, Len(comments)) = comments
             /\ Marked(comments') = {Len(comments')}
        ELSE /\ Len(comments') = Len(comments)
             /\ Marked(comments') = Marked(comments)
             /\ \A k \in 1..Len(comments) :
                   /\ comments'[k].id = comments[k].id
                   /\ comments'[k].body =
                         IF k \in Marked(comments) THEN comment_body ELSE comments[k].body

\* C8: on a pull request that starts without a comment carrying the marker,
\* after any number of upsert_main_comment calls made one after the other
\* exactly one comment starts with the marker: the first call creates it and
\* every later call edits that same comment.
C8_SummaryUpsertIdempotent ==
    /\ [](Cardinality(Marked(comments)) = IF upserts = 0 THEN 0 ELSE 1)
    /\ [][UpsertCreatesThenEdits]_vars

\* C8's case: a later run has edited the summary that an earlier run created
\* after the comments of other authors.
C8_Witness ==
    /\ upserts >= 2
    /\ Len(comments) = 3
    /\ Marked(comments) = {3}
    /\ comments[3].body = comment_body

\* sub in s
Contains(s, sub) ==
    \E i \in 1..(Len(s) - Len(sub) + 1) : SubSeq(s, i, i + Len(sub) - 1) = sub

\* The summary of this run is among the comments of the pull request.
SummaryPublished ==
    \E k \in Marked(comments) : comments[k].body = comment_body

\* C9: in a run whose patch was truncated no create_review call is made, the
\* run does not abort, and when it ends its summary comment is published.
C9_TruncatedSkipsInline ==
    truncated =>
        /\ review_calls = <<>>
        /\ pc # "fatal"
        /\ (pc = "done" => SummaryPublished)

\* C9's case: a run on a truncated patch has ended with inline suggestions
\* enabled and a validated suggestion.
C9_Witness ==
    /\ truncated /\ pc = "done"
    /\ enable_inline
    /\ validated # <<>>
    /\ \A k \in 1..Len(validated) : AllStr(validated[k].dict["replacement"].list)

\* C10: when the model call raised, the run is not aborted: model_data has
\* the failure text as its summary and no suggestion, nothing is validated,
\* the published summary shows the failure and the placeholder instead of
\* suggestion rows, and no create_review call is made.
C10_LlmFailureStillPublishes ==
    llm_failed =>
        /\ pc # "fatal"
        /\ "summary" \in DOMAIN model_data
        /\ StartsWith(model_data["summary"].str, "Falha LLM: ")
        /\ model_data["suggestions"] = JList(<<>>)
        /\ (pc \in {"render", "publish", "inline", "done"} => validated = <<>>)
        /\ (pc \in {"inline", "done"} =>
               /\ SummaryPublished
               /\ Contains(comment_body, "**Resumo:** Falha LLM: ")
               /\ Contains(comment_body, NoSuggestions)
               /\ ~Contains(comment_body, "| ID |"))
        /\ review_calls = <<>>

\* C10's case: a run whose model call timed out after the request has ended,
\* with inline suggestions enabled and a patch that was not truncated.
C10_Witness ==
    /\ llm_failed /\ llm_calls = 1 /\ pc = "done"
    /\ enable_inline /\ ~truncated
    /\ Contains(comment_body, "Read timed out")

\* C11: when the fetched patch is empty the run ends right after the fetch:
\* call_llm_for_suggestions is not entered and no request goes to the model,
\* no summary is rendered, no comment of the pull request is created or
\* edited, and no create_review call is made.
C11_EmptyPatchEndsRun ==
    /\ []((fetch_calls > 0 /\ patch = "" /\ pc # "fatal") =>
             /\ pc = "done"
             /\ model_data = None /\ llm_calls = 0 /\ ~llm_failed
             /\ comment_body = ""
             /\ review_calls = <<>>)
    /\ [][patch' = "" => (comments' = comments /\ upserts' = upserts)]_vars

\* C11's case: a run with every variable set and inline suggestions enabled
\* has fetched a pull request whose only file has no patch, and has ended.
C11_Witness ==
    /\ pc = "done" /\ fetch_calls = 1 /\ patch = ""
    /\ env = MainRequired \cup LlmRequired
    /\ enable_inline
    /\ files = << PrFile("logo.png", None) >>

\* The first create_review call of the run was rejected.
FirstRejected == review_calls # <<>> /\ ~review_calls[1].accepted

\* Entry c of the first batch as the retry must carry it.
Collapsed(c, r) ==
    IF "start_line" \in DOMAIN c
    THEN /\ DOMAIN r = {"path", "body", "line", "side"}
         /\ r.path = c.path /\ r.body = c.body
         /\ r.line = c.line /\ r.side = "RIGHT"
    ELSE r = c

\* C12: an accepted first create_review call is the only one; a rejected
\* first call is followed by exactly one more, whose batch has the length,
\* the paths and the bodies of the first, with every entry that had
\* start_line and line now a single-line comment at that line (the end line
\* of its suggestion) and every other entry as it was; whether the retry is
\* accepted or not there is no third call, and the run ends and is not aborted.
C12_FallbackRetriedOnce ==
    /\ Len(review_calls) <= 2
    /\ (review_calls # <<>> /\ review_calls[1].accepted) => Len(review_calls) = 1
    /\ FirstRejected =>
          /\ Len(review_calls) = 2
          /\ pc = "done"
          /\ Len(review_calls[2].comments) = Len(review_calls[1].comments)
          /\ Len(review_calls[1].comments) = Len(validated)
          /\ \A k \in 1..Len(validated) :
                LET c == review_calls[1].comments[k]
                    r == review_calls[2].comments[k]
                IN  /\ Collapsed(c, r)
                    /\ "start_line" \notin DOMAIN r
                    /\ ("start_line" \in DOMAIN c) => r.line = LineEnd(validated[k])

\* C12's case: the first call, with a ranged entry and a single-line entry,
\* was rejected, and so was the retry.
C12_Witness ==
    /\ FirstRejected
    /\ Len(review_calls) = 2 /\ ~review_calls[2].accepted
    /\ \E k \in 1..Len(validated) :
          /\ "start_line" \in DOMAIN review_calls[1].comments[k]
          /\ LineEnd(validated[k]) > LineStart(validated[k])
    /\ \E k \in 1..Len(validated) :
          "start_line" \notin DOMAIN review_calls[1].comments[k]

\* The lines an inline comment is anchored on.
AnchoredLines(e) ==
    IF "start_line" \in DOMAIN e THEN e.start_line..e.line ELSE {e.line}

\* The positions of the suggestions of the answer the validator accepts.
Accepted ==
    {i \in 1..Len(SuggestionsOf(model_data)) :
        TryBody(SuggestionsOf(model_data)[i], added_index, allow_multi_line).kind = "ok"}

\* C20: in every create_review call of a run, first attempt or retry, the
\* comments are, one for one and in order, the validated suggestions, which
\* are the suggestions of the answer the validator accepts against the
\* index of the run's patch; each comment is on its suggestion's file and
\* only on lines from the suggestion's start to its end, all of them keys of
\* that file in the index; a rejected suggestion has no comment.
C20_InlineCommentsAnchored ==
    \A c \in 1..Len(review_calls) :
        LET batch == review_calls[c].comments IN
        /\ added_index = build_added_lines_index(patch)
        /\ Len(batch) = Len(validated)
        /\ Len(batch) = Cardinality(Accepted)
        /\ \A k \in 1..Len(batch) :
              LET e == batch[k]
                  v == validated[k]
              IN  /\ Base(v) \in {SuggestionsOf(model_data)[i] : i \in Accepted}
                  /\ e.path = v.dict["file"].str
                  /\ e.body = InlineBody(v)
                  /\ DictHas(added_index, e.path)
                  /\ AnchoredLines(e) # {}
                  /\ AnchoredLines(e) \subseteq LineStart(v)..LineEnd(v)
                  /\ AnchoredLines(e) \subseteq DictKeys(DictGet(added_index, e.path)[1])

\* C20's case: a run has published its comments in a first attempt and in
\* the retry, for an answer of which one suggestion was accepted and
\* another rejected.
C20_Witness ==
    /\ pc = "done"
    /\ Len(review_calls) = 2
    /\ validated # <<>>
    /\ Len(validated) < Len(SuggestionsOf(model_data))

-----------------------------------------------------------------------------
(* Claims about overlapping runs, checked under SpecOverlap *)

\* The runs whose loop found no comment with the marker and that have
\* created one.
Creators == {r \in Runs : upsert_pc[r] = "done" /\ existing[r] = None}

\* C17 as stated: however the steps of the overlapping runs interleave, at
\* most one comment of the pull request carries the marker.
C17_OverlapAtMostOneSummary == Cardinality(Marked(comments)) <= 1

\* C17 as amended: a run whose loop finds a comment with the marker edits it
\* and creates none; a run creates a comment only when its loop found none;
\* so the comments with the marker are at most one, or one for each run
\* that listed the comments before any of them carried the marker.
C17_OneSummaryPerUnawareRun ==
    /\ Cardinality(Marked(comments)) <=
           IF Creators = {} THEN 1 ELSE Cardinality(Creators)
    /\ \A r \in Runs :
           (existing[r] # None) => (existing[r][1] \in Marked(comments))

\* C17's case: both runs listed the comments before either had created the
\* summary, both have written, and two comments carry the marker.
C17_Witness ==
    /\ \A r \in Runs : upsert_pc[r] = "done"
    /\ Creators = Runs
    /\ Cardinality(Marked(comments)) = Cardinality(Runs)

\* C13: with one of GITHUB_REPOSITORY, PR_NUMBER, GITHUB_TOKEN,
\* AZURE_OPENAI_ENDPOINT and AZURE_OPENAI_API_KEY not set, the run is fatal
\* and stops before any network call: the diff is not fetched, the model is
\* not called, no comment is created or edited and no review is created, in
\* this run and in every run made with that environment.
C13_MissingCredentialFatalBeforeNetwork ==
    ~((MainRequired \cup LlmRequired) \subseteq env) =>
        /\ pc \in {"start", "fatal"}
        /\ fetch_calls = 0
        /\ llm_calls = 0
        /\ upserts = 0 /\ comments \in InitialComments
        /\ review_calls = <<>>

====
